---- MODULE Spec2Model ----
(***************************************************************************)
(* Model of the DEI Sentinel dashboard (src/app.py).                       *)
(*                                                                         *)
(* The dashboard is a Streamlit script: every interaction with a widget    *)
(* re-executes the whole script top to bottom with the current widget      *)
(* values.  The state is the widget values, the st.cache_data store and    *)
(* the values the script's variables hold at the end of the last run.      *)
(*                                                                         *)
(* Python floats are modelled as IEEE-754 binary64 values (53-bit          *)
(* significand, round to nearest, ties to even) over arbitrary-precision   *)
(* naturals, so that the rounding of each operation is the code's.         *)
(***************************************************************************)
EXTENDS Integers, Sequences, FiniteSets, TLC

\* ------------------------------------------------------------------------
\* Arbitrary-precision naturals: little-endian sequences of limbs, the
\* highest limb non-zero, zero is << >>.
\* ------------------------------------------------------------------------
LimbBits == 13

Pow2[n \in Nat] == IF n = 0 THEN 1 ELSE 2 * Pow2[n - 1]

LimbBase == Pow2[LimbBits]

Big == Seq(Nat)

IntBitLen[n \in Nat] == IF n = 0 THEN 0 ELSE 1 + IntBitLen[n \div 2]

BigFromInt[n \in Nat] ==
    IF n = 0 THEN << >> ELSE <<n % LimbBase>> \o BigFromInt[n \div LimbBase]

BigToInt[a \in Big] == IF a = << >> THEN 0 ELSE Head(a) + LimbBase * BigToInt[Tail(a)]

BigAddC[a \in Big, b \in Big, c \in Nat] ==
    IF a = << >> /\ b = << >>
    THEN (IF c = 0 THEN << >> ELSE <<c>>)
    ELSE LET x == IF a = << >> THEN 0 ELSE Head(a)
             y == IF b = << >> THEN 0 ELSE Head(b)
             s == x + y + c
         IN <<s % LimbBase>> \o BigAddC[IF a = << >> THEN << >> ELSE Tail(a),
                                        IF b = << >> THEN << >> ELSE Tail(b),
                                        s \div LimbBase]

BigAdd(a, b) == BigAddC[a, b, 0]

BigInc(a) == BigAddC[a, << >>, 1]

BigMulSmallC[a \in Big, k \in Nat, c \in Nat] ==
    IF a = << >> THEN BigFromInt[c]
    ELSE LET s == Head(a) * k + c
         IN <<s % LimbBase>> \o BigMulSmallC[Tail(a), k, s \div LimbBase]

\* a * k for 0 <= k < 2^17
BigMulSmall(a, k) == IF k = 0 THEN << >> ELSE BigMulSmallC[a, k, 0]

BigShiftLimbs(a, q) == IF a = << >> THEN << >> ELSE [i \in 1..q |-> 0] \o a

BigMul[a \in Big, b \in Big] ==
    IF b = << >> THEN << >>
    ELSE BigAdd(BigMulSmall(a, Head(b)), BigShiftLimbs(BigMul[a, Tail(b)], 1))

\* quotient and remainder of a by 0 < d < 2^17
BigDivSmall[a \in Big, d \in Nat] ==
    IF a = << >> THEN [q |-> << >>, r |-> 0]
    ELSE LET hi  == BigDivSmall[Tail(a), d]
             cur == hi.r * LimbBase + Head(a)
             dig == cur \div d
         IN [q |-> IF dig = 0 /\ hi.q = << >> THEN << >> ELSE <<dig>> \o hi.q,
             r |-> cur % d]

BigBitLen(a) ==
    IF a = << >> THEN 0 ELSE LimbBits * (Len(a) - 1) + IntBitLen[a[Len(a)]]

BigIsOdd(a) == a # << >> /\ Head(a) % 2 = 1

\* a * 2^s
BigShl(a, s) == BigShiftLimbs(BigMulSmall(a, Pow2[s % LimbBits]), s \div LimbBits)

\* the lowest n limbs of a, and the limbs above them
BigLowLimbs(a, n) == SubSeq(a, 1, IF n < Len(a) THEN n ELSE Len(a))

BigHighLimbs(a, n) == IF n < Len(a) THEN SubSeq(a, n + 1, Len(a)) ELSE << >>

BigShrOf(dv, low) ==
    [q |-> dv.q, sticky |-> dv.r # 0 \/ \E i \in 1..Len(low) : low[i] # 0]

\* floor(a / 2^s), and whether any of the bits shifted out was set
BigShr(a, s) ==
    BigShrOf(BigDivSmall[BigHighLimbs(a, s \div LimbBits), Pow2[s % LimbBits]],
             BigLowLimbs(a, s \div LimbBits))

\* ------------------------------------------------------------------------
\* binary64: [m, e] is the value m * 2^e with 2^52 <= m < 2^53, or zero.
\* Only finite non-negative normal values occur in the script.
\* ------------------------------------------------------------------------
MantBits == 53

FZero == [m |-> << >>, e |-> 0]

\* q rounded to nearest, ties to even: guard is the first bit dropped below
\* q, sticky whether any bit below the guard was set
HalfEven(q, guard, sticky) ==
    IF guard /\ (sticky \/ BigIsOdd(q)) THEN BigInc(q) ELSE q

\* sh is a value shifted right to one bit more than is kept
RoundShifted(sh, sticky) ==
    HalfEven(BigShr(sh.q, 1).q, BigIsOdd(sh.q), sh.sticky \/ sticky)

\* the rounding carried into a 54th bit
FNormalize(m1, e) ==
    IF BigBitLen(m1) > MantBits
    THEN [m |-> BigShr(m1, 1).q, e |-> e + 1]
    ELSE [m |-> m1, e |-> e]

FRoundLen(big, e, sticky, L) ==
    IF L = 0 THEN FZero
    ELSE IF L <= MantBits
    THEN [m |-> BigShl(big, MantBits - L), e |-> e - (MantBits - L)]
    ELSE FNormalize(RoundShifted(BigShr(big, L - MantBits - 1), sticky), e + (L - MantBits))

\* the binary64 nearest to big * 2^e (plus a fraction of a unit when sticky)
FRound(big, e, sticky) == FRoundLen(big, e, sticky, BigBitLen(big))

\* int -> float conversion
FFromInt(n) == FRound(BigFromInt[n], 0, FALSE)

\* Python's int / int (true division, correctly rounded)
FRoundDiv(dv, e) == FRound(dv.q, e, dv.r # 0)

FDivInt(n, d) ==
    FRoundDiv(BigDivSmall[BigShl(BigFromInt[n], 5 * LimbBits), d], 0 - 5 * LimbBits)

FMul(a, b) ==
    IF a = FZero \/ b = FZero THEN FZero
    ELSE FRound(BigMul[a.m, b.m], a.e + b.e, FALSE)

\* the sum of two values brought to the common exponent e
FAddAt(a, b, e) == FRound(BigAdd(BigShl(a.m, a.e - e), BigShl(b.m, b.e - e)), e, FALSE)

FAdd(a, b) ==
    IF a = FZero THEN b
    ELSE IF b = FZero THEN a
    ELSE FAddAt(a, b, IF a.e < b.e THEN a.e ELSE b.e)

\* the digits after the first fractional digit cut off instead of rounded
FormatFixed1_truncated(x) ==
    IF x = FZero THEN 0
    ELSE IF x.e >= 0 THEN BigToInt[BigShl(BigMulSmall(x.m, 10), x.e)]
    ELSE BigToInt[BigShr(BigMulSmall(x.m, 10), 0 - x.e).q]

\* f"{x:.1f}": the decimal with one fractional digit nearest to x (ties to
\* even), as the integer number of tenths
FormatFixed1(x) ==
    IF x = FZero THEN 0
    ELSE IF x.e >= 0 THEN BigToInt[BigShl(BigMulSmall(x.m, 10), x.e)]
    ELSE BigToInt[RoundShifted(BigShr(BigMulSmall(x.m, 10), (0 - x.e) - 1), FALSE)]

BigLeq[a \in Big, b \in Big] ==
    IF Len(a) # Len(b) THEN Len(a) < Len(b)
    ELSE IF a = << >> THEN TRUE
    ELSE IF a[Len(a)] # b[Len(b)] THEN a[Len(a)] < b[Len(b)]
    ELSE BigLeq[SubSeq(a, 1, Len(a) - 1), SubSeq(b, 1, Len(b) - 1)]

FLeq(a, b) ==
    \/ a = FZero
    \/ /\ b # FZero
       /\ \/ a.e < b.e
          \/ a.e = b.e /\ BigLeq[a.m, b.m]

\* 2 * a
FDouble(a) == IF a = FZero THEN FZero ELSE [m |-> a.m, e |-> a.e + 1]

\* the position of a positive binary64 in the order of the binary64 values:
\* consecutive values have consecutive positions
FOrd(a) == BigAdd(BigShl(BigFromInt[a.e + 1100], MantBits - 1), a.m)

\* a and b are at most k binary64 values apart
FWithinUlps(a, b, k) ==
    IF a = FZero \/ b = FZero THEN a = b
    ELSE /\ BigLeq[FOrd(a), BigAdd(FOrd(b), BigFromInt[k])]
         /\ BigLeq[FOrd(b), BigAdd(FOrd(a), BigFromInt[k])]

\* a decimal literal num/den written in the source (0.9 is 9/10)
FLiteral(num, den) == FDivInt(num, den)

\* ------------------------------------------------------------------------
\* Calendar: pd.to_datetime of a "YYYY-MM-DD" literal, as the number of
\* days since 1970-01-01 (every timestamp of the script is a midnight).
\* ------------------------------------------------------------------------
EpochYear == 1970

IsLeap(y) == (y % 4 = 0 /\ y % 100 # 0) \/ y % 400 = 0

DaysInMonth(y, m) ==
    IF m = 2 THEN (IF IsLeap(y) THEN 29 ELSE 28)
    ELSE IF m \in {4, 6, 9, 11} THEN 30 ELSE 31

DaysBeforeYear[y \in Nat] ==
    IF y <= EpochYear THEN 0
    ELSE DaysBeforeYear[y - 1] + (IF IsLeap(y - 1) THEN 366 ELSE 365)

DaysBeforeMonth[y \in Nat, m \in 1..12] ==
    IF m = 1 THEN 0 ELSE DaysBeforeMonth[y, m - 1] + DaysInMonth(y, m - 1)

to_datetime(ymd) == DaysBeforeYear[ymd[1]] + DaysBeforeMonth[ymd[1], ymd[2]] + (ymd[3] - 1)

\* ------------------------------------------------------------------------
\* Data simulation (section 2 of the script)
\* ------------------------------------------------------------------------
None == "None"

\* the scores written as percentages
generate_radar_data_percent ==
    [d \in {"Heart Failure", "Diabetes", "Lung Cancer"} |->
        CASE d = "Heart Failure" ->
               [Waste |-> FFromInt(90), Latency |-> FFromInt(40), Fragmentation |-> FFromInt(50)]
          [] d = "Diabetes" ->
               [Waste |-> FFromInt(30), Latency |-> FFromInt(90), Fragmentation |-> FFromInt(30)]
          [] d = "Lung Cancer" ->
               [Waste |-> FFromInt(60), Latency |-> FFromInt(50), Fragmentation |-> FFromInt(90)]]

generate_radar_data ==
    [d \in {"Heart Failure", "Diabetes", "Lung Cancer"} |->
        CASE d = "Heart Failure" ->
               [Waste |-> FLiteral(9, 10), Latency |-> FLiteral(4, 10), Fragmentation |-> FLiteral(5, 10)]
          [] d = "Diabetes" ->
               [Waste |-> FLiteral(3, 10), Latency |-> FLiteral(9, 10), Fragmentation |-> FLiteral(3, 10)]
          [] d = "Lung Cancer" ->
               [Waste |-> FLiteral(6, 10), Latency |-> FLiteral(5, 10), Fragmentation |-> FLiteral(9, 10)]]

\* the ER visit entered with the month of the second GP visit
timeline_rows_misdated ==
    << [Date |-> <<2008, 1, 15>>, Event |-> "GP Visit - General Fatigue", Cost |-> 150, Shadow |-> TRUE, Type |-> "GP"],
       [Date |-> <<2008, 2, 20>>, Event |-> "GP Visit - Vision Blur", Cost |-> 150, Shadow |-> TRUE, Type |-> "GP"],
       [Date |-> <<2008, 3, 10>>, Event |-> "Optometrist Referral", Cost |-> 300, Shadow |-> TRUE, Type |-> "Specialist"],
       [Date |-> <<2008, 2, 5>>, Event |-> "ER Visit - Fainting", Cost |-> 1200, Shadow |-> TRUE, Type |-> "ER"],
       [Date |-> <<2008, 5, 12>>, Event |-> "Endocrinologist Consult", Cost |-> 290, Shadow |-> TRUE, Type |-> "Specialist"],
       [Date |-> <<2008, 6, 30>>, Event |-> "Inpatient Admission - DIABETES DIAGNOSIS", Cost |-> 15000, Shadow |-> FALSE, Type |-> "Inpatient"] >>

\* the literal rows, before the Date column is parsed
timeline_rows ==
    << [Date |-> <<2008, 1, 15>>, Event |-> "GP Visit - General Fatigue", Cost |-> 150, Shadow |-> TRUE, Type |-> "GP"],
       [Date |-> <<2008, 2, 20>>, Event |-> "GP Visit - Vision Blur", Cost |-> 150, Shadow |-> TRUE, Type |-> "GP"],
       [Date |-> <<2008, 3, 10>>, Event |-> "Optometrist Referral", Cost |-> 300, Shadow |-> TRUE, Type |-> "Specialist"],
       [Date |-> <<2008, 4, 5>>, Event |-> "ER Visit - Fainting", Cost |-> 1200, Shadow |-> TRUE, Type |-> "ER"],
       [Date |-> <<2008, 5, 12>>, Event |-> "Endocrinologist Consult", Cost |-> 290, Shadow |-> TRUE, Type |-> "Specialist"],
       [Date |-> <<2008, 6, 30>>, Event |-> "Inpatient Admission - DIABETES DIAGNOSIS", Cost |-> 15000, Shadow |-> FALSE, Type |-> "Inpatient"] >>

generate_patient_timeline ==
    [i \in 1..Len(timeline_rows) |->
        [timeline_rows[i] EXCEPT !.Date = to_datetime(timeline_rows[i].Date)]]

generate_equity_data ==
    [c \in {"Race", "Gender"} |->
        IF c = "Race"
        THEN [g \in {"White", "Black", "Hispanic"} |->
                 CASE g = "White" -> 152 [] g = "Black" -> 164 [] g = "Hispanic" -> 158]
        ELSE [g \in {"Male", "Female"} |->
                 CASE g = "Male" -> 153 [] g = "Female" -> 150]]

\* The scatter frame is the output of numpy's generator for a fixed seed;
\* it is held as the parameters that determine it, not as its 200 floats.
generate_efficiency_scatter_data ==
    [seed |-> 42, n |-> 200, dei_low |-> 0, dei_high |-> 3,
     base_cost |-> 15000, slope |-> 500, noise_sd |-> 8000]

\* st.cache_data: the first call of a function stores its result, every
\* later call returns a copy of the stored result.
EmptyCache == << >>

\* The store after the call; the value the call returns is the entry of
\* the function in that store.
cache_data(c, name, result) ==
    IF name \in DOMAIN c THEN c ELSE c @@ (name :> result)

\* ------------------------------------------------------------------------
\* Act I: the strategic radar
\* ------------------------------------------------------------------------
disease_options == <<"Heart Failure", "Diabetes", "Lung Cancer">>
disease_index == 1

\* the Diabetes gap entered with two digits exchanged
waste_map_transposed ==
    [d \in {"Heart Failure", "Diabetes", "Lung Cancer"} |->
        CASE d = "Heart Failure" -> 3624
          [] d = "Diabetes" -> 3962
          [] d = "Lung Cancer" -> 10737]

waste_map ==
    [d \in {"Heart Failure", "Diabetes", "Lung Cancer"} |->
        CASE d = "Heart Failure" -> 3624
          [] d = "Diabetes" -> 3926
          [] d = "Lung Cancer" -> 10737]

archetype_info ==
    [d \in {"Heart Failure", "Diabetes", "Lung Cancer"} |->
        CASE d = "Heart Failure" -> [archetype |-> "The Crash"]
          [] d = "Diabetes" -> [archetype |-> "The Creep"]
          [] d = "Lung Cancer" -> [archetype |-> "The Complex"]]

\* values = [Waste, Latency, Fragmentation]; values += values[:1]
radar_values(scores) ==
    LET vals == <<scores.Waste, scores.Latency, scores.Fragmentation>>
    IN vals \o SubSeq(vals, 1, 1)

\* ------------------------------------------------------------------------
\* Act II: the shadow hunter
\* ------------------------------------------------------------------------
\* Series.sum() of a column of integers
Sum[xs \in Seq(Int)] == IF xs = << >> THEN 0 ELSE Head(xs) + Sum[Tail(xs)]

Column(df, name) == [i \in 1..Len(df) |-> df[i][name]]

IsShadow(row) == row.Shadow = TRUE

\* the sum taken over every row, the Shadow filter left out
ShadowCost_unfiltered(df) == Sum[Column(df, "Cost")]

\* timeline_df[timeline_df['Shadow'] == True]['Cost'].sum()
ShadowCost(df) == Sum[Column(SelectSeq(df, IsShadow), "Cost")]

EndOffsetDays == 3

\* the frame with the column End = Date + Timedelta(days=3)
WithEnd(df) ==
    [i \in 1..Len(df) |->
        [Date |-> df[i].Date, Event |-> df[i].Event, Cost |-> df[i].Cost,
         Shadow |-> df[i].Shadow, Type |-> df[i].Type,
         End |-> df[i].Date + EndOffsetDays]]

\* timeline_viz_df = timeline_df without the copy: the column lands in the
\* frame itself
TimelineViz_no_copy(df) == [timeline_df |-> WithEnd(df), timeline_viz_df |-> WithEnd(df)]

\* timeline_viz_df = timeline_df.copy(); timeline_viz_df['End'] = ...
\* The column is added to the copy, the frame itself is left as it was.
TimelineViz(df) == [timeline_df |-> df, timeline_viz_df |-> WithEnd(df)]

DateMin(df) == CHOOSE d \in {df[i].Date : i \in 1..Len(df)} :
                   \A i \in 1..Len(df) : d <= df[i].Date

DateMax(df) == CHOOSE d \in {df[i].Date : i \in 1..Len(df)} :
                   \A i \in 1..Len(df) : d >= df[i].Date

\* (end_date - start_date).days
LatencyDays(viz) == DateMax(viz) - DateMin(viz)

Tab2Of(df, t) ==
    [timeline_df |-> t.timeline_df,
     timeline_viz_df |-> t.timeline_viz_df,
     shadow_cost |-> ShadowCost(df),
     latency_days |-> LatencyDays(t.timeline_viz_df)]

\* what tab2 computes from the timeline frame
Tab2(df) == Tab2Of(df, TimelineViz(df))

\* ------------------------------------------------------------------------
\* Act III: the equity auditor
\* ------------------------------------------------------------------------
analysis_options == <<"Race", "Gender">>

\* insertion order of the keys of each equity table
equity_keys(seg) ==
    IF seg = "Race" THEN <<"White", "Black", "Hispanic">> ELSE <<"Male", "Female">>

EquityFrame(seg, table) ==
    [i \in 1..Len(equity_keys(seg)) |->
        [Group |-> equity_keys(seg)[i],
         Days_to_Diagnosis |-> table[equity_keys(seg)[i]]]]

\* f"{(gap/baseline)*100:.1f}", in tenths of a percent
PercentLonger(days, baseline) == FormatFixed1(FMul(FDivInt(days, baseline), FFromInt(100)))

RaceGapsOf(baseline, black, hispanic) ==
    [black_gap |-> black,
     hispanic_gap |-> hispanic,
     black_pct |-> PercentLonger(black, baseline),
     hispanic_pct |-> PercentLonger(hispanic, baseline)]

RaceGaps(table) ==
    RaceGapsOf(table["White"], table["Black"] - table["White"],
               table["Hispanic"] - table["White"])

GenderGap(table) == table["Male"] - table["Female"]

\* ------------------------------------------------------------------------
\* Act IV: the savings engine
\* ------------------------------------------------------------------------
HF_GAP == 3624
DM_GAP == 3926
LC_GAP == 10737
COHORT_SIZE == 14446

SliderMin == 0
SliderMax == 100
SliderStep == 5
SliderDefault == 0

\* the slider's range one step longer than max_value
SliderValues_past_max ==
    {v \in SliderMin..(SliderMax + SliderStep) : (v - SliderMin) % SliderStep = 0}

SliderValues == {v \in SliderMin..SliderMax : (v - SliderMin) % SliderStep = 0}

patients_per_archetype == FDivInt(COHORT_SIZE, 3)

\* the reduction capped at half the slider's range before it is applied
Savings_capped(GAP, reduction) ==
    FMul(FMul(patients_per_archetype, FFromInt(GAP)),
         FDivInt(IF reduction > 50 THEN 50 ELSE reduction, 100))

\* patients_per_archetype * GAP * (reduction / 100)
Savings(GAP, reduction) ==
    FMul(FMul(patients_per_archetype, FFromInt(GAP)), FDivInt(reduction, 100))

\* the sum with the last term left out
TotalSavings_two_terms(hf, dm, lc) == FAdd(hf, dm)

\* hf_savings + dm_savings + lc_savings
TotalSavings(hf, dm, lc) == FAdd(FAdd(hf, dm), lc)

\* lever values past the slider's range, for the runs that feed the
\* computation inputs the slider cannot produce
MaxExcess == 2
ExcessValues == {SliderMax + k * SliderStep : k \in 1..MaxExcess}

\* a function as an explicit table, so that its values are computed once
Tabulate(f) == f @@ << >>

\* one savings line per gap and lever value, computed once
SavingsTable ==
    Tabulate([g \in {HF_GAP, DM_GAP, LC_GAP}, p \in SliderValues \cup ExcessValues |-> Savings(g, p)])

SavingsLines(hf, dm, lc) ==
    [hf_savings |-> hf, dm_savings |-> dm, lc_savings |-> lc,
     total_savings |-> TotalSavings(hf, dm, lc)]

\* the three savings lines and their sum for every lever setting, computed once
SavingsEngine ==
    Tabulate([red \in SliderValues \cup ExcessValues, lat \in SliderValues \cup ExcessValues,
              frag \in SliderValues \cup ExcessValues |->
                 SavingsLines(SavingsTable[HF_GAP, red], SavingsTable[DM_GAP, lat],
                              SavingsTable[LC_GAP, frag])])

\* what tab2 computes from the generated timeline, computed once
Tab2Table == Tabulate([df \in {generate_patient_timeline} |-> Tab2(df)])

\* the tab3 metrics of the generated Race table, computed once
RaceGapsTable == Tabulate([t \in {generate_equity_data["Race"]} |-> RaceGaps(t)])

\* ------------------------------------------------------------------------
\* One execution of the script
\* ------------------------------------------------------------------------
VARIABLES
    \* widget values held by the session
    selected_disease, analysis_type,
    redundancy_reduction, latency_reduction, fragmentation_reduction,
    \* the st.cache_data store and the module-level datasets
    cache, radar_data, timeline_df, equity_data, scatter_data,
    \* what the last run left in the script's variables (None: not assigned)
    exception,
    projected_waste, info, values,
    shadow_cost, timeline_viz_df, latency_days,
    data_to_plot, df_equity, black_gap, hispanic_gap, black_pct, hispanic_pct, gap,
    hf_savings, dm_savings, lc_savings, total_savings

widgets == <<selected_disease, analysis_type,
             redundancy_reduction, latency_reduction, fragmentation_reduction>>

datasets == <<radar_data, timeline_df, equity_data, scatter_data>>

vars == <<widgets, cache, datasets, exception,
          projected_waste, info, values,
          shadow_cost, timeline_viz_df, latency_days,
          data_to_plot, df_equity, black_gap, hispanic_gap, black_pct, hispanic_pct, gap,
          hf_savings, dm_savings, lc_savings, total_savings>>

\* no run yet: the store is empty and no variable is assigned
NotRun ==
    [cache |-> EmptyCache,
     radar_data |-> None, timeline_df |-> None, equity_data |-> None, scatter_data |-> None,
     exception |-> None,
     projected_waste |-> None, info |-> None, values |-> None,
     shadow_cost |-> None, timeline_viz_df |-> None, latency_days |-> None,
     data_to_plot |-> None, df_equity |-> None,
     black_gap |-> None, hispanic_gap |-> None, black_pct |-> None, hispanic_pct |-> None,
     gap |-> None,
     hf_savings |-> None, dm_savings |-> None, lc_savings |-> None, total_savings |-> None]

\* section 2, "Initialize Data": the four cached generator calls
InitializeData(c) ==
    cache_data(
        cache_data(
            cache_data(
                cache_data(c, "generate_radar_data", generate_radar_data),
                "generate_patient_timeline", generate_patient_timeline),
            "generate_equity_data", generate_equity_data),
        "generate_efficiency_scatter_data", generate_efficiency_scatter_data)

Datasets(c) ==
    [cache |-> c,
     radar_data |-> c["generate_radar_data"],
     timeline_df |-> c["generate_patient_timeline"],
     equity_data |-> c["generate_equity_data"],
     scatter_data |-> c["generate_efficiency_scatter_data"]]

\* the three dictionary lookups of tab1 by the selected disease
Tab1Found(sel, radar) ==
    sel \in DOMAIN waste_map /\ sel \in DOMAIN archetype_info /\ sel \in DOMAIN radar

Tab1Vars(sel, radar) ==
    [projected_waste |-> waste_map[sel],
     info |-> archetype_info[sel],
     values |-> radar_values(radar[sel])]

Tab2Vars(tl) == IF tl \in DOMAIN Tab2Table THEN Tab2Table[tl] ELSE Tab2(tl)

Tab3RaceVars(table) == IF table \in DOMAIN RaceGapsTable THEN RaceGapsTable[table] ELSE RaceGaps(table)

Tab3Vars(seg, table) ==
    [data_to_plot |-> table, df_equity |-> EquityFrame(seg, table)]
    @@ (IF seg = "Race" THEN Tab3RaceVars(table) ELSE [gap |-> GenderGap(table)])

Tab4Vars(red, lat, frag) == SavingsEngine[red, lat, frag]

\* The tabs run in order over the loaded store; a failed dictionary lookup
\* raises KeyError and ends the run, the variables after it stay unassigned.
RunTabs(sel, seg, red, lat, frag, c) ==
    IF ~Tab1Found(sel, c["generate_radar_data"])
    THEN [exception |-> "KeyError"] @@ Datasets(c) @@ NotRun
    ELSE IF seg \notin DOMAIN c["generate_equity_data"]
    THEN [exception |-> "KeyError"]
         @@ Tab1Vars(sel, c["generate_radar_data"])
         @@ Tab2Vars(c["generate_patient_timeline"])
         @@ Datasets(c) @@ NotRun
    ELSE [exception |-> None]
         @@ Tab1Vars(sel, c["generate_radar_data"])
         @@ Tab2Vars(c["generate_patient_timeline"])
         @@ Tab3Vars(seg, c["generate_equity_data"][seg])
         @@ Tab4Vars(red, lat, frag)
         @@ Datasets(c) @@ NotRun

\* the redundancy lever read only while Heart Failure is the selected disease
Script_lever_of_selection(sel, seg, red, lat, frag, c) ==
    RunTabs(sel, seg, IF sel = "Heart Failure" THEN red ELSE SliderMin, lat, frag,
            InitializeData(c))

\* The values the script's variables hold after it ran top to bottom with
\* the given widget values and cache.
Script(sel, seg, red, lat, frag, c) == RunTabs(sel, seg, red, lat, frag, InitializeData(c))

\* the state holds the outcome of a run
Holds(run) ==
    /\ cache = run.cache
    /\ radar_data = run.radar_data
    /\ timeline_df = run.timeline_df
    /\ equity_data = run.equity_data
    /\ scatter_data = run.scatter_data
    /\ exception = run.exception
    /\ projected_waste = run.projected_waste
    /\ info = run.info
    /\ values = run.values
    /\ shadow_cost = run.shadow_cost
    /\ timeline_viz_df = run.timeline_viz_df
    /\ latency_days = run.latency_days
    /\ data_to_plot = run.data_to_plot
    /\ df_equity = run.df_equity
    /\ black_gap = run.black_gap
    /\ hispanic_gap = run.hispanic_gap
    /\ black_pct = run.black_pct
    /\ hispanic_pct = run.hispanic_pct
    /\ gap = run.gap
    /\ hf_savings = run.hf_savings
    /\ dm_savings = run.dm_savings
    /\ lc_savings = run.lc_savings
    /\ total_savings = run.total_savings

\* the next state holds the outcome of a run
HoldsNext(run) ==
    /\ cache' = run.cache
    /\ radar_data' = run.radar_data
    /\ timeline_df' = run.timeline_df
    /\ equity_data' = run.equity_data
    /\ scatter_data' = run.scatter_data
    /\ exception' = run.exception
    /\ projected_waste' = run.projected_waste
    /\ info' = run.info
    /\ values' = run.values
    /\ shadow_cost' = run.shadow_cost
    /\ timeline_viz_df' = run.timeline_viz_df
    /\ latency_days' = run.latency_days
    /\ data_to_plot' = run.data_to_plot
    /\ df_equity' = run.df_equity
    /\ black_gap' = run.black_gap
    /\ hispanic_gap' = run.hispanic_gap
    /\ black_pct' = run.black_pct
    /\ hispanic_pct' = run.hispanic_pct
    /\ gap' = run.gap
    /\ hf_savings' = run.hf_savings
    /\ dm_savings' = run.dm_savings
    /\ lc_savings' = run.lc_savings
    /\ total_savings' = run.total_savings

\* a widget changed: the script is re-executed with the new widget values
Rerun(sel, seg, red, lat, frag) ==
    /\ selected_disease' = sel
    /\ analysis_type' = seg
    /\ redundancy_reduction' = red
    /\ latency_reduction' = lat
    /\ fragmentation_reduction' = frag
    /\ \E run \in {Script(sel, seg, red, lat, frag, cache)} : HoldsNext(run)

\* the page is opened: the first run, with every widget at its default
Init ==
    /\ selected_disease = disease_options[disease_index + 1]
    /\ analysis_type = analysis_options[1]
    /\ redundancy_reduction = SliderDefault
    /\ latency_reduction = SliderDefault
    /\ fragmentation_reduction = SliderDefault
    /\ \E run \in {Script(selected_disease, analysis_type, redundancy_reduction,
                          latency_reduction, fragmentation_reduction, EmptyCache)} : Holds(run)

SelectDisease(d) ==
    /\ d # selected_disease
    /\ Rerun(d, analysis_type, redundancy_reduction, latency_reduction, fragmentation_reduction)

SelectAnalysis(a) ==
    /\ a # analysis_type
    /\ Rerun(selected_disease, a, redundancy_reduction, latency_reduction, fragmentation_reduction)

MoveRedundancy(v) ==
    /\ v # redundancy_reduction
    /\ Rerun(selected_disease, analysis_type, v, latency_reduction, fragmentation_reduction)

MoveLatency(v) ==
    /\ v # latency_reduction
    /\ Rerun(selected_disease, analysis_type, redundancy_reduction, v, fragmentation_reduction)

MoveFragmentation(v) ==
    /\ v # fragmentation_reduction
    /\ Rerun(selected_disease, analysis_type, redundancy_reduction, latency_reduction, v)

Range(seq) == {seq[i] : i \in 1..Len(seq)}

\* The slider positions one move is taken to from position cur: the
\* positions at most MaxDrag steps away, and the position twice as far
\* from the left end.
MaxDrag == 1

SliderTargets(cur) ==
    {v \in SliderValues :
        \/ v - cur \in (0 - MaxDrag * SliderStep)..(MaxDrag * SliderStep)
        \/ v = 2 * cur}

Next ==
    \/ \E d \in Range(disease_options) : SelectDisease(d)
    \/ \E a \in Range(analysis_options) : SelectAnalysis(a)
    \/ \E v \in SliderTargets(redundancy_reduction) : MoveRedundancy(v)
    \/ \E v \in SliderTargets(latency_reduction) : MoveLatency(v)
    \/ \E v \in SliderTargets(fragmentation_reduction) : MoveFragmentation(v)

Spec == Init /\ [][Next]_vars

\* ------------------------------------------------------------------------
\* The computation fed with inputs the widgets cannot produce: the page is
\* opened with arbitrary values in place of the widget values.
\* ------------------------------------------------------------------------
UnknownKey == "Unknown"

BoundaryDiseases == Range(disease_options) \cup {UnknownKey}
BoundarySegments == Range(analysis_options) \cup {UnknownKey}
BoundaryLevers == {SliderMin, SliderMax} \cup ExcessValues

HasRun == DOMAIN cache # {}

BoundaryInit ==
    /\ selected_disease \in BoundaryDiseases
    /\ analysis_type \in BoundarySegments
    /\ redundancy_reduction \in BoundaryLevers
    /\ latency_reduction \in BoundaryLevers
    /\ fragmentation_reduction \in BoundaryLevers
    /\ Holds(NotRun)

LoadPage ==
    /\ ~HasRun
    /\ Rerun(selected_disease, analysis_type,
             redundancy_reduction, latency_reduction, fragmentation_reduction)

BoundaryNext == LoadPage

BoundarySpec == BoundaryInit /\ [][BoundaryNext]_vars

\* ------------------------------------------------------------------------
\* Properties
\* ------------------------------------------------------------------------
Rows(df) == {df[i] : i \in 1..Len(df)}

FirstEventDate == <<2008, 1, 15>>
LastEventDate == <<2008, 6, 30>>

\* C1: latency_days of the fixed timeline is the number of days from the
\* first event date 2008-01-15 to the last event date 2008-06-30, and that
\* number is the 166 of the Act II caption and the data comment.
C1_LatencyIs166 ==
    exception = None =>
        /\ latency_days = to_datetime(LastEventDate) - to_datetime(FirstEventDate)
        /\ latency_days = 166

\* C2: shadow_cost is the sum of Cost over exactly the rows whose Shadow flag
\* is true, the diagnosis row (Cost 15000) adds nothing to it, and it is
\* 150 + 150 + 300 + 1200 + 290 = 2090.
C2_ShadowCost ==
    exception = None =>
        /\ shadow_cost = 150 + 150 + 300 + 1200 + 290
        /\ shadow_cost = 2090
        /\ \A row \in Rows(timeline_df) :
               ~row.Shadow => row.Cost = 15000
        /\ shadow_cost + 15000 = Sum[Column(timeline_df, "Cost")]

C2_Witness ==
    /\ exception = None
    /\ shadow_cost = 2090
    /\ selected_disease = "Lung Cancer"
    /\ fragmentation_reduction = SliderMax

\* (COHORT_SIZE / 3) * gap * (percent / 100), with the numbers of the claim
C3_Term(g, p) == FMul(FMul(FDivInt(14446, 3), FFromInt(g)), FDivInt(p, 100))

C3_TermOf == Tabulate([g \in {3624, 3926, 10737}, p \in SliderValues |-> C3_Term(g, p)])

\* (COHORT_SIZE / 3) * (3624 + 3926 + 10737)
C3_AllLevers == FMul(FDivInt(14446, 3), FFromInt(3624 + 3926 + 10737))

\* C3: for every combination of the three lever percentages, total_savings
\* is the sum over the three archetypes of (COHORT_SIZE/3) * gap * (percent/100)
\* with gaps 3624, 3926, 10737 and COHORT_SIZE 14446; with every lever at 0 it
\* is 0 and with every lever at 100 it is (COHORT_SIZE/3) * (3624 + 3926 + 10737).
C3_TotalSavings ==
    exception = None =>
        /\ hf_savings = C3_TermOf[3624, redundancy_reduction]
        /\ dm_savings = C3_TermOf[3926, latency_reduction]
        /\ lc_savings = C3_TermOf[10737, fragmentation_reduction]
        /\ total_savings = FAdd(FAdd(C3_TermOf[3624, redundancy_reduction],
                                     C3_TermOf[3926, latency_reduction]),
                                C3_TermOf[10737, fragmentation_reduction])
        /\ (redundancy_reduction = 0 /\ latency_reduction = 0 /\ fragmentation_reduction = 0)
               => total_savings = FZero
        /\ (redundancy_reduction = 100 /\ latency_reduction = 100 /\ fragmentation_reduction = 100)
               => total_savings = C3_AllLevers

C3_Witness ==
    /\ exception = None
    /\ redundancy_reduction = 100 /\ latency_reduction = 100 /\ fragmentation_reduction = 100
    /\ total_savings = C3_AllLevers
    /\ total_savings # FZero

\* one lever goes from p > 0 to 2p, the other two stay
DoubledRedundancy ==
    /\ redundancy_reduction > 0
    /\ redundancy_reduction' = 2 * redundancy_reduction
    /\ UNCHANGED <<latency_reduction, fragmentation_reduction>>

DoubledLatency ==
    /\ latency_reduction > 0
    /\ latency_reduction' = 2 * latency_reduction
    /\ UNCHANGED <<redundancy_reduction, fragmentation_reduction>>

DoubledFragmentation ==
    /\ fragmentation_reduction > 0
    /\ fragmentation_reduction' = 2 * fragmentation_reduction
    /\ UNCHANGED <<redundancy_reduction, latency_reduction>>

\* C4 as stated: taking one lever from p to 2p with the other two fixed
\* doubles that lever's contribution exactly, leaves the other two
\* contributions unchanged and changes total_savings by exactly that lever's
\* former contribution.
C4_LinearExact ==
    [][ /\ DoubledRedundancy =>
              /\ hf_savings' = FDouble(hf_savings)
              /\ UNCHANGED <<dm_savings, lc_savings>>
              /\ total_savings' = FAdd(total_savings, hf_savings)
        /\ DoubledLatency =>
              /\ dm_savings' = FDouble(dm_savings)
              /\ UNCHANGED <<hf_savings, lc_savings>>
              /\ total_savings' = FAdd(total_savings, dm_savings)
        /\ DoubledFragmentation =>
              /\ lc_savings' = FDouble(lc_savings)
              /\ UNCHANGED <<hf_savings, dm_savings>>
              /\ total_savings' = FAdd(total_savings, lc_savings)
      ]_vars

\* C4 (amended): taking one lever from p to 2p with the other two fixed
\* doubles that lever's contribution exactly and leaves the other two
\* contributions unchanged; total_savings is the re-rounded sum of the three
\* contributions, which is the old total plus that lever's former
\* contribution to within 2 units in the last place.
C4_Linear ==
    [][ /\ DoubledRedundancy =>
              /\ hf_savings' = FDouble(hf_savings)
              /\ UNCHANGED <<dm_savings, lc_savings>>
              /\ FWithinUlps(total_savings', FAdd(total_savings, hf_savings), 2)
        /\ DoubledLatency =>
              /\ dm_savings' = FDouble(dm_savings)
              /\ UNCHANGED <<hf_savings, lc_savings>>
              /\ FWithinUlps(total_savings', FAdd(total_savings, dm_savings), 2)
        /\ DoubledFragmentation =>
              /\ lc_savings' = FDouble(lc_savings)
              /\ UNCHANGED <<hf_savings, dm_savings>>
              /\ FWithinUlps(total_savings', FAdd(total_savings, lc_savings), 2)
      ]_vars

\* a lever stands at twice 5 and its contribution is twice the one at 5,
\* while the total is not the old total plus that contribution
C4_Witness ==
    /\ exception = None
    /\ redundancy_reduction = 0 /\ latency_reduction = 10 /\ fragmentation_reduction = 10
    /\ dm_savings = FDouble(C3_TermOf[3926, 5])
    /\ total_savings # FAdd(FAdd(C3_TermOf[3926, 5], lc_savings), C3_TermOf[3926, 5])

\* C5: with analysis segment Race and baseline White = 152 days the gap is
\* days[group] - days[White] and the percent gap is gap / baseline * 100
\* rounded to one decimal: Black (164) gives +12 days and 7.9%, Hispanic (158)
\* gives +6 days and 3.9%.
C5_RaceGaps ==
    (exception = None /\ analysis_type = "Race") =>
        /\ equity_data["Race"]["White"] = 152
        /\ equity_data["Race"]["Black"] = 164
        /\ equity_data["Race"]["Hispanic"] = 158
        /\ black_gap = equity_data["Race"]["Black"] - equity_data["Race"]["White"]
        /\ hispanic_gap = equity_data["Race"]["Hispanic"] - equity_data["Race"]["White"]
        /\ black_gap = 12 /\ black_pct = 79
        /\ hispanic_gap = 6 /\ hispanic_pct = 39

C5_Witness ==
    /\ exception = None /\ analysis_type = "Race"
    /\ selected_disease = "Heart Failure"
    /\ black_gap = 12 /\ black_pct = 79 /\ hispanic_gap = 6 /\ hispanic_pct = 39

EventTypes == {"GP", "Specialist", "ER", "Inpatient"}

\* C6: the timeline has exactly 6 events in strictly ascending date order,
\* every Type is one of GP, Specialist, ER, Inpatient, exactly one event has
\* Shadow = false and it is the last one, so every Shadow = true event is
\* dated strictly before it.
C6_Timeline ==
    exception = None =>
        /\ Len(timeline_df) = 6
        /\ \A i \in 1..Len(timeline_df) : \A j \in 1..Len(timeline_df) :
               i < j => timeline_df[i].Date < timeline_df[j].Date
        /\ \A i \in 1..Len(timeline_df) : timeline_df[i].Type \in EventTypes
        /\ Cardinality({i \in 1..Len(timeline_df) : ~timeline_df[i].Shadow}) = 1
        /\ ~timeline_df[Len(timeline_df)].Shadow
        /\ \A i \in 1..Len(timeline_df) :
               timeline_df[i].Shadow =>
                   timeline_df[i].Date < timeline_df[Len(timeline_df)].Date

C6_Witness ==
    /\ exception = None
    /\ Len(timeline_df) = 6
    /\ timeline_df[1].Date = to_datetime(FirstEventDate)
    /\ timeline_df[6].Date = to_datetime(LastEventDate)
    /\ ~timeline_df[6].Shadow
    /\ analysis_type = "Gender"

ScoreInUnitInterval(x) == FLeq(FZero, x) /\ FLeq(x, FFromInt(1))

RadarShape ==
    /\ DOMAIN radar_data = {"Heart Failure", "Diabetes", "Lung Cancer"}
    /\ Cardinality(DOMAIN radar_data) = 3
    /\ \A d \in DOMAIN radar_data :
           /\ ScoreInUnitInterval(radar_data[d].Waste)
           /\ ScoreInUnitInterval(radar_data[d].Latency)
           /\ ScoreInUnitInterval(radar_data[d].Fragmentation)

\* C7: the archetype catalog has exactly the 3 entries Heart Failure,
\* Diabetes, Lung Cancer, every Waste, Latency and Fragmentation score lies in
\* [0,1], and the catalog read on a later re-run of the script is the one read
\* on the first run.
C7_RadarCatalog == [](HasRun => RadarShape) /\ [][radar_data' = radar_data]_vars

C7_Witness ==
    /\ HasRun /\ RadarShape
    /\ selected_disease = "Heart Failure"
    /\ values = <<FLiteral(9, 10), FLiteral(4, 10), FLiteral(5, 10), FLiteral(9, 10)>>

\* the datasets of the script are the stored outputs of the four generators
DatasetsAsGenerated ==
    /\ radar_data = cache["generate_radar_data"]
    /\ timeline_df = cache["generate_patient_timeline"]
    /\ equity_data = cache["generate_equity_data"]
    /\ scatter_data = cache["generate_efficiency_scatter_data"]
    /\ \A i \in 1..Len(timeline_df) : "End" \notin DOMAIN timeline_df[i]
    /\ \A d \in DOMAIN radar_data : DOMAIN radar_data[d] = {"Waste", "Latency", "Fragmentation"}

\* C8: after any sequence of interactions, each a re-run of the whole script,
\* the four datasets are what they were after the first run: closing the
\* radar polygon, adding the End column to the timeline copy and building the
\* equity frame leave the generator outputs alone; only the lever percentages
\* and the selections change.
C8_DatasetsUnchanged ==
    /\ [](HasRun => DatasetsAsGenerated)
    /\ [][cache' = cache /\ datasets' = datasets]_vars

C8_Witness ==
    /\ HasRun /\ DatasetsAsGenerated
    /\ selected_disease = "Lung Cancer" /\ analysis_type = "Gender"
    /\ redundancy_reduction = 10
    /\ Len(values) = 4
    /\ \A i \in 1..Len(timeline_viz_df) :
           timeline_viz_df[i].End = timeline_df[i].Date + 3
    /\ Len(df_equity) = 2

InvalidInput ==
    \/ selected_disease \notin Range(disease_options)
    \/ analysis_type \notin Range(analysis_options)
    \/ redundancy_reduction \notin SliderMin..SliderMax
    \/ latency_reduction \notin SliderMin..SliderMax
    \/ fragmentation_reduction \notin SliderMin..SliderMax

levers == <<redundancy_reduction, latency_reduction, fragmentation_reduction>>

savings == <<hf_savings, dm_savings, lc_savings, total_savings>>

\* what a newly opened page shows for the current widget values
FreshRun ==
    Script(selected_disease, analysis_type, redundancy_reduction, latency_reduction,
           fragmentation_reduction, EmptyCache)

ShownAsFresh ==
    \E run \in {FreshRun} :
        /\ exception = run.exception
        /\ hf_savings = run.hf_savings
        /\ dm_savings = run.dm_savings
        /\ lc_savings = run.lc_savings
        /\ total_savings = run.total_savings
        /\ projected_waste = run.projected_waste
        /\ values = run.values

\* C11: the dashboard has no hidden state.  After any sequence of slider
\* moves and selector changes the state shows what a newly opened page shows
\* for the same widget values (so two histories that end in the same widget
\* values show the same derived values); a step that keeps the three levers
\* keeps the four savings values, and a step that keeps the selected disease
\* keeps the efficiency gap and the radar scores.
C11_NoHiddenState ==
    /\ [](HasRun => ShownAsFresh)
    /\ [][levers' = levers => savings' = savings]_vars
    /\ [][selected_disease' = selected_disease =>
            (projected_waste' = projected_waste /\ values' = values)]_vars

\* a state at the end of a history of selector changes and slider moves
C11_Witness ==
    /\ HasRun /\ exception = None
    /\ selected_disease = "Heart Failure" /\ analysis_type = "Gender"
    /\ levers = <<35, 60, 15>>
    /\ projected_waste = 3624
    /\ hf_savings # FZero /\ dm_savings # FZero /\ lc_savings # FZero

LeverInRange(v) ==
    /\ v \in Int /\ 0 <= v /\ v <= 100
    /\ v % 5 = 0

NoLeverLowered == \A i \in 1..3 : levers[i] <= levers'[i]

\* C12: in every reachable state each of the three lever percentages is an
\* integer in [0,100] and a multiple of 5; total_savings lies between 0 and
\* (COHORT_SIZE/3) * (3624 + 3926 + 10737); and a step that lowers no lever
\* does not lower total_savings.
C12_LeversBounded ==
    /\ [](HasRun =>
            /\ \A i \in 1..3 : LeverInRange(levers[i])
            /\ FLeq(FZero, total_savings)
            /\ FLeq(total_savings, C3_AllLevers))
    /\ [][NoLeverLowered => FLeq(total_savings, total_savings')]_vars

\* every lever at the right end of its slider, the total at its upper bound
C12_Witness ==
    /\ HasRun /\ exception = None
    /\ levers = <<100, 100, 100>>
    /\ total_savings = C3_AllLevers

\* the gap constant of Act IV that belongs to each disease's archetype
ArchetypeGap ==
    [d \in {"Heart Failure", "Diabetes", "Lung Cancer"} |->
        CASE d = "Heart Failure" -> HF_GAP
          [] d = "Diabetes" -> DM_GAP
          [] d = "Lung Cancer" -> LC_GAP]

GapTablesAgree ==
    /\ HF_GAP = 3624 /\ DM_GAP = 3926 /\ LC_GAP = 10737
    /\ \A d \in Range(disease_options) :
           /\ d \in DOMAIN waste_map
           /\ d \in DOMAIN archetype_info
           /\ d \in DOMAIN radar_data
           /\ waste_map[d] = ArchetypeGap[d]

\* C13: the efficiency gap of Act I and the gap constant of Act IV agree.
\* For every selectable disease waste_map holds the constant of that
\* disease's archetype (Heart Failure 3624 = HF_GAP, Diabetes 3926 = DM_GAP,
\* Lung Cancer 10737 = LC_GAP), the gap shown in Act I is that constant, the
\* savings lines of Act IV are computed from the same three numbers, and
\* waste_map, archetype_info and radar_data each have an entry for every
\* selectable disease, so that no run ends in a failed lookup.
C13_GapTablesAgree ==
    HasRun =>
        /\ exception = None
        /\ GapTablesAgree
        /\ selected_disease \in Range(disease_options)
        /\ projected_waste = ArchetypeGap[selected_disease]
        /\ hf_savings = C3_TermOf[waste_map["Heart Failure"], redundancy_reduction]
        /\ dm_savings = C3_TermOf[waste_map["Diabetes"], latency_reduction]
        /\ lc_savings = C3_TermOf[waste_map["Lung Cancer"], fragmentation_reduction]

\* Lung Cancer selected and its lever moved: both tables are read
C13_Witness ==
    /\ HasRun /\ exception = None
    /\ selected_disease = "Lung Cancer"
    /\ projected_waste = 10737
    /\ fragmentation_reduction = 40
    /\ lc_savings = C3_TermOf[LC_GAP, 40]
    /\ info = [archetype |-> "The Complex"]

====
